---- MODULE Spec2Model ----
(***************************************************************************)
(* notion2md_to_hugo: a Notion page (a tree of typed blocks) is walked     *)
(* into Markdown text (src/notion2md.py), the images of that text are      *)
(* relocated into an image store and the result is saved by the driver     *)
(* (src/main.py).                                                          *)
(*                                                                         *)
(* Text is a sequence of tokens (strings).  The characters the image       *)
(* pattern looks at ("!", "[", "]", "(", ")", the quote, blanks and the    *)
(* newline) are one token each; a literal the code emits as a unit such as *)
(* "# " or "------", and a chunk of a URL, is one token.                   *)
(*                                                                         *)
(* A call that can raise returns a record whose field err is "" on         *)
(* success and the name of the exception otherwise.                        *)
(***************************************************************************)
EXTENDS Naturals, Sequences, FiniteSets, TLC

VARIABLES
  tree,           \* Notion: parent id -> the ordered list of its child blocks
  page_limit,     \* Notion: number of results the API returns per page
  database,       \* Notion: the rows of the child database, a list of pages
  api_down,       \* Notion: parent ids whose children request fails
  web,            \* remote image hosts: URL -> image bytes, or "down"
  img_store_type, \* configuration: "local" or "github"
  github_branch,  \* configuration: the branch images are uploaded to
  store_down,     \* the image store rejects writes
  local_files,    \* local image store: path -> bytes
  gh_files,       \* github image store: <<branch, path>> -> bytes
  page_nodes,     \* the documents main() iterates over
  doc_ix,         \* main(): number of documents the loop is done with
  page_id,        \* the id of the page being converted
  pc,             \* position of the running operation
  markdown_text,  \* the text produced so far by the current operation
  err,            \* exception raised by the current operation, "" if none
  rendered,       \* history: block ids in the order their text was appended
  asked,          \* history: parent ids the block source was asked for
  fetched,        \* history: image URLs requested by the last relocation
  stored,         \* history: store() calls, [link, data, key, url], and the
                  \* text after the step of the call
  before_text,    \* the text handed to the last relocation
  md_files        \* history: Markdown files written, [doc, path, content]

vars == <<tree, page_limit, database, api_down, web, img_store_type, github_branch,
          store_down,
          local_files, gh_files, page_nodes, doc_ix, page_id, pc, markdown_text, err,
          rendered, asked, fetched, stored, before_text, md_files>>

notion_vars == <<tree, page_limit, database, api_down>>
store_vars == <<local_files, gh_files>>
env_vars == <<web, img_store_type, github_branch, store_down>>
main_vars == <<page_nodes, doc_ix, page_id, md_files>>

----------------------------------------------------------------------------
(* Helpers for Python values *)

\* dict.get(key, default)
Get(r, f, d) == IF f \in DOMAIN r THEN r[f] ELSE d

\* s * n for a one-token string s
Rep(tok, n) == [k \in 1..n |-> tok]

Min(a, b) == IF a < b THEN a ELSE b

Ok(t) == [err |-> "", text |-> t]
Raise(e) == [err |-> e, text |-> <<>>]

\* the element of a one-element set: The({F(x) : x \in {e}}) is F of the
\* value of e, which is computed once
The(S) == CHOOSE y \in S : TRUE

\* prefix + <result of a call>, the exception of the call propagating
Prefixed(p, r) == The({IF x.err # "" THEN x ELSE Ok(p \o x.text) : x \in {r}})

\* str.split('\n'): the pieces between newline tokens
RECURSIVE SplitLines(_)
SplitLines(s) ==
  IF \A k \in 1..Len(s) : s[k] # "\n" THEN <<s>>
  ELSE The({<<SubSeq(s, 1, k - 1)>> \o The({SplitLines(rest) : rest \in {SubSeq(s, k + 1, Len(s))}}) :
              k \in {j \in 1..Len(s) : s[j] = "\n" /\ \A h \in 1..(j - 1) : s[h] # "\n"}})

----------------------------------------------------------------------------
(* Inline formatter: ElementAnnotations and the element handlers *)

proc_unsupport_block(text) == <<"Bot msg: ", text>>

\* ElementAnnotations.parse_text: the wraps, each applied to the result of
\* the one before
WrapBold(a, t) == IF Get(a, "bold", FALSE) THEN <<"**">> \o t \o <<"**">> ELSE t
WrapItalic(a, t) == IF Get(a, "italic", FALSE) THEN <<"*">> \o t \o <<"*">> ELSE t
WrapStrike(a, t) ==
  IF Get(a, "strikethrough", FALSE) THEN <<"~~">> \o t \o <<"~~">> ELSE t
WrapUnderline(a, t) ==
  IF Get(a, "underline", FALSE) THEN <<"<u>">> \o t \o <<"</u>">> ELSE t
\* the token "BACKTICK" stands for the backtick character
WrapCode(a, t) ==
  IF Get(a, "code", FALSE) THEN <<"BACKTICK">> \o t \o <<"BACKTICK">> ELSE t
WrapColor(a, t) ==
  IF Get(a, "color", "default") # "default"
  THEN <<"<font color=", Get(a, "color", "default"), ">">> \o t \o <<"</font>">>
  ELSE t

\* parse_text with the code wrap applied first
parse_text_code_first(a, text) ==
  WrapColor(a, WrapUnderline(a, WrapStrike(a, WrapItalic(a, WrapBold(a, WrapCode(a, text))))))

parse_text(a, text) ==
  WrapColor(a, WrapCode(a, WrapUnderline(a, WrapStrike(a, WrapItalic(a, WrapBold(a, text))))))

_handle_element_base(element) ==
  LET plain_text == Get(element, "plain_text", <<>>)
      href == Get(element, "href", <<>>)
      annotations == Get(element, "annotations", [color |-> "default"])
      parsed_text == IF href # <<>>
                     THEN <<"[">> \o plain_text \o <<"]", "(">> \o href \o <<")">>
                     ELSE plain_text
  IN parse_text(annotations, parsed_text)

handle_element_text(element) == _handle_element_base(element)

handle_element_mention(element) ==
  LET mention_field == Get(element, "mention", [none |-> TRUE])
  IN IF Get(mention_field, "type", "None") # "link_preview"
     THEN proc_unsupport_block("mention other than link_preview is not supported")
     ELSE _handle_element_base(element)

\* getattr(self, handle_element_<element_type>)(element)
handle_element(element) ==
  LET element_type == Get(element, "type", "None")
  IN CASE element_type = "text" -> Ok(handle_element_text(element))
       [] element_type = "mention" -> Ok(handle_element_mention(element))
       [] OTHER -> Raise("AttributeError")

RECURSIVE text_block_loop(_, _)
text_block_loop(texts, k) ==
  IF k > Len(texts) THEN Ok(<<>>)
  ELSE The({IF one.err # "" THEN one ELSE Prefixed(one.text, text_block_loop(texts, k + 1)) :
              one \in {handle_element(texts[k])}})

_handle_text_block_base(block) ==
  text_block_loop(Get(Get(block, "data", [none |-> TRUE]), "rich_text", <<>>), 1)

----------------------------------------------------------------------------
(* Block renderer: one handle_block_<type> per block type *)

\* block.get(block_type, {}): the payload of the block is its field data
Payload(block) == Get(block, "data", [none |-> TRUE])

handle_block_paragraph(block, level) == _handle_text_block_base(block)

handle_block_numbered_list_item(block, level) ==
  Prefixed(<<"1. ">>, _handle_text_block_base(block))

handle_block_bulleted_list_item(block, level) ==
  Prefixed(<<"- ">>, _handle_text_block_base(block))

\* block['image'][image_type]['url'] inside the image syntax
handle_block_image(block, level) ==
  IF "data" \notin DOMAIN block THEN Raise("KeyError")
  ELSE LET image_field == block.data
           image_type == image_field.type
           image_url == image_field[image_type].url
       IN Ok(<<"!", "[", "]", "(">> \o image_url \o <<")">>)

RECURSIVE code_lines(_, _, _)
code_lines(lines, k, level) ==
  IF k > Len(lines) THEN <<>>
  ELSE <<"    ">> \o lines[k] \o <<"\n">> \o Rep("  ", level)
       \o code_lines(lines, k + 1, level)

\* the token "FENCE" stands for the three backticks of a fenced block
handle_block_code(block, level) ==
  LET lang == Get(Payload(block), "language", <<>>)
  IN The({IF block_text.err # "" THEN block_text
          ELSE IF level > 0
               THEN Ok(code_lines(SplitLines(block_text.text), 1, level))
               ELSE Ok(<<"FENCE">> \o lang \o <<"\n">> \o block_text.text \o <<"\n", "FENCE">>) :
            block_text \in {_handle_text_block_base(block)}})

handle_block_heading_1(block, level) ==
  Prefixed(<<"# ">>, _handle_text_block_base(block))

handle_block_heading_2(block, level) ==
  Prefixed(<<"## ">>, _handle_text_block_base(block))

handle_block_heading_3(block, level) ==
  Prefixed(<<"### ">>, _handle_text_block_base(block))

handle_block_bookmark(block, level) ==
  LET bookmark_url == Get(Payload(block), "url", <<>>)
  IN Ok(<<"- ", "[">> \o bookmark_url \o <<"]", "(">> \o bookmark_url \o <<")">>)

handle_block_quote(block, level) ==
  Prefixed(<<"> ">>, _handle_text_block_base(block))

handle_block_to_do(block, level) ==
  LET checked == Get(Payload(block), "checked", FALSE)
      prefix == IF checked THEN <<"- [x] ">> ELSE <<"- [ ] ">>
  IN Prefixed(prefix, _handle_text_block_base(block))

handle_block_divider(block, level) == Ok(<<"------">>)

\* The callout template is one opening and one closing token; markdown.markdown
\* is the token pair "<md>" ... "</md>" around the text it converts.
handle_block_callout(block, level) ==
  LET icon_field == Get(Payload(block), "icon", [none |-> TRUE])
      icon_type == Get(icon_field, "type", "")
      icon_html ==
        IF icon_type = "emoji" THEN <<"<div emoji>", Get(icon_field, "emoji", "None"), "</div>">>
        ELSE IF icon_type = "external"
             THEN <<"<img src=">> \o Get(Get(icon_field, "external", [none |-> TRUE]), "url", <<>>)
                  \o <<">">>
             ELSE <<>>
  IN The({IF block_text.err # "" THEN block_text
          ELSE Ok(<<"<div class=callout>">> \o icon_html \o <<"<md>">> \o block_text.text
                  \o <<"</md>", "</div>">>) :
            block_text \in {_handle_text_block_base(block)}})

handle_block_unsupported(block, level) ==
  Ok(proc_unsupport_block("API block is not supported"))

handle_block_table(block, level) ==
  LET table_width == Get(Payload(block), "table_width", 0)
  IN Ok(<<"  ">> \o Rep("|", table_width) \o <<"|", "\n", "  ">>
        \o Rep("|-", table_width) \o <<"|">>)

\* rows[i][0]: the first run of each cell; an empty cell has no first run
RECURSIVE table_row_loop(_, _)
table_row_loop(rows, i) ==
  IF i > Len(rows) THEN Ok(<<>>)
  ELSE IF Len(rows[i]) = 0 THEN Raise("IndexError")
       ELSE Prefixed(_handle_element_base(rows[i][1]) \o <<"|">>, table_row_loop(rows, i + 1))

handle_block_table_row(block, level) ==
  Prefixed(<<"|">>, table_row_loop(Get(Payload(block), "cells", <<>>), 1))

handle_block_table_of_contents(block, level) == Ok(<<>>)

----------------------------------------------------------------------------
(* Child database: handle_block_child_database *)

\* page_size of the query kwargs
DbPageSize == 100

\* self.notion.databases.query(database_id, page_size, start_cursor): the rows
\* from the cursor on, at most page_size of them and at most what the server
\* returns per page; next_cursor is 0 (None) on the last page.  A cursor is
\* the index of the first row of the page.
databases_query(database_id, start_cursor) ==
  LET n == Min(DbPageSize, page_limit)
      last == Min(Len(database), start_cursor + n - 1)
  IN [results |-> SubSeq(database, start_cursor, last),
      next_cursor |-> IF last < Len(database) THEN last + 1 ELSE 0]

\* self._handle_text_block_base(field_data, has_text_field=False): the method
\* takes (block, level) and no keyword has_text_field, so the call raises
handle_text_block_base_kw(field_data, has_text_field) == Raise("TypeError")

\* the body of the loop over the properties of a row: prev is the state
\* before the property, an exception ending the loop
db_field(field_name, field_data, prev) ==
  IF prev.err # "" THEN prev
  ELSE The({[err |-> field_text.err,
             row_dict |-> IF field_text.err # "" THEN prev.row_dict
                          ELSE (field_name :> field_text.text) @@ prev.row_dict,
             title_field |-> IF Get(field_data, "type", "None") = "title"
                             THEN field_name ELSE prev.title_field] :
              field_text \in {handle_text_block_base_kw(field_data, FALSE)}})

\* for field_name, field_data in properties.items(): F[k] is the state after
\* k properties
db_fields_loop(properties, title_field) ==
  LET F[k \in 0..Len(properties)] ==
        IF k = 0 THEN [err |-> "", row_dict |-> <<>>, title_field |-> title_field]
        ELSE The({db_field(properties[k].name, properties[k].data, prev) : prev \in {F[k - 1]}})
  IN F[Len(properties)]

\* the body of the loop over the rows of a page of results
db_row(item, prev) ==
  IF prev.err # "" THEN prev
  ELSE The({[err |-> row.err,
             table_list |-> IF row.err # "" THEN prev.table_list
                            ELSE Append(prev.table_list, row.row_dict),
             title_field |-> row.title_field] :
              row \in {db_fields_loop(Get(item, "properties", <<>>), prev.title_field)}})

\* for item in results: F[i] is the state after i rows
db_rows_loop(results, table_list, title_field) ==
  LET F[i \in 0..Len(results)] ==
        IF i = 0 THEN [err |-> "", table_list |-> table_list, title_field |-> title_field]
        ELSE The({db_row(results[i], prev) : prev \in {F[i - 1]}})
  IN F[Len(results)]

\* while True: query a page, add its rows, follow next_cursor
RECURSIVE db_pages_loop(_, _, _, _)

\* if res.get('next_cursor'): go on from that cursor, else: break
db_pages_next(database_id, res, rows) ==
  IF rows.err # "" \/ res.next_cursor = 0 THEN rows
  ELSE db_pages_loop(database_id, res.next_cursor, rows.table_list, rows.title_field)

\* the rows of the page res added to table_list
db_pages_rows(database_id, res, table_list, title_field) ==
  The({db_pages_next(database_id, res, rows) :
         rows \in {db_rows_loop(res.results, table_list, title_field)}})

db_pages_loop(database_id, start_cursor, table_list, title_field) ==
  The({db_pages_rows(database_id, res, table_list, title_field) :
         res \in {databases_query(database_id, start_cursor)}})

\* the field names of the rows other than the title field, as a set
OtherFields(table_list, title_field) ==
  UNION {DOMAIN table_list[i] : i \in 1..Len(table_list)} \ {title_field}

\* list(all_fields): the set in some order
RECURSIVE SetToSeq(_)
SetToSeq(S) ==
  IF S = {} THEN <<>> ELSE LET x == CHOOSE y \in S : TRUE IN <<x>> \o SetToSeq(S \ {x})

\* a field name as text: the empty name is the empty text
NameText(name) == IF name = "" THEN <<>> ELSE <<name>>

\* " | ".join(parts)
RECURSIVE JoinBar(_)
JoinBar(parts) ==
  IF Len(parts) = 0 THEN <<>>
  ELSE IF Len(parts) = 1 THEN parts[1]
       ELSE parts[1] \o <<" | ">> \o JoinBar(Tail(parts))

RECURSIVE db_table_rows(_, _, _)
db_table_rows(table_list, i, all_fields) ==
  IF i > Len(table_list) THEN <<>>
  ELSE JoinBar([c \in 1..Len(all_fields) |-> Get(table_list[i], all_fields[c], <<>>)])
       \o <<"\n">> \o db_table_rows(table_list, i + 1, all_fields)

\* the header, the rule and the rows of the table
db_table(table_list, all_fields) ==
  JoinBar([c \in 1..Len(all_fields) |-> NameText(all_fields[c])]) \o <<"\n">>
  \o JoinBar([c \in 1..Len(all_fields) |-> <<"----">>]) \o <<"\n">>
  \o db_table_rows(table_list, 1, all_fields)

handle_block_child_database(block, level) ==
  The({IF tbl.err # "" THEN Raise(tbl.err)
       ELSE The({Ok(db_table(tbl.table_list, all_fields)) :
                   all_fields \in {<<tbl.title_field>>
                                   \o SetToSeq(OtherFields(tbl.table_list, tbl.title_field))}}) :
         tbl \in {db_pages_loop(block.id, 1, <<>>, "")}})

----------------------------------------------------------------------------
(* Tree walker: get_blocks, _parse_blocks, parse *)

\* getattr(self, handle_block_<block_type>)(block, level): a type without a
\* method of that name raises AttributeError
handle_block(block, level) ==
  LET block_type == Get(block, "type", "None")
  IN CASE block_type = "paragraph" -> handle_block_paragraph(block, level)
       [] block_type = "numbered_list_item" -> handle_block_numbered_list_item(block, level)
       [] block_type = "bulleted_list_item" -> handle_block_bulleted_list_item(block, level)
       [] block_type = "image" -> handle_block_image(block, level)
       [] block_type = "code" -> handle_block_code(block, level)
       [] block_type = "heading_1" -> handle_block_heading_1(block, level)
       [] block_type = "heading_2" -> handle_block_heading_2(block, level)
       [] block_type = "heading_3" -> handle_block_heading_3(block, level)
       [] block_type = "bookmark" -> handle_block_bookmark(block, level)
       [] block_type = "quote" -> handle_block_quote(block, level)
       [] block_type = "to_do" -> handle_block_to_do(block, level)
       [] block_type = "child_database" -> handle_block_child_database(block, level)
       [] block_type = "divider" -> handle_block_divider(block, level)
       [] block_type = "callout" -> handle_block_callout(block, level)
       [] block_type = "unsupported" -> handle_block_unsupported(block, level)
       [] block_type = "table" -> handle_block_table(block, level)
       [] block_type = "table_row" -> handle_block_table_row(block, level)
       [] block_type = "table_of_contents" -> handle_block_table_of_contents(block, level)
       [] OTHER -> Raise("AttributeError")

\* self.notion.blocks.children.list(block_id): the first page of the children
\* of block_id (no start_cursor is passed), and the cursor of the next page
\* (0 for None).  A request for an id Notion does not serve, or while the API
\* is down for that id, raises.
blocks_children_list(block_id) ==
  IF block_id \notin DOMAIN tree \/ block_id \in api_down
  THEN [err |-> "APIResponseError", results |-> <<>>, next_cursor |-> 0]
  ELSE LET last == Min(Len(tree[block_id]), page_limit)
       IN [err |-> "", results |-> SubSeq(tree[block_id], 1, last),
           next_cursor |-> IF last < Len(tree[block_id]) THEN last + 1 ELSE 0]

\* page_data.get('results') or []
get_blocks(parent_block_id) ==
  The({[err |-> page_data.err, blocks |-> page_data.results] :
         page_data \in {blocks_children_list(parent_block_id)}})

\* Eof with two newlines for every type
EofTwoNewlines(block_type) == <<"\n", "\n">>

Eof(block_type) == IF block_type \in {"table", "table_row"} THEN <<"\n">> ELSE <<"\n", "\n">>

NoWalk == [err |-> "", text |-> <<>>, rendered |-> <<>>, asked |-> <<>>]

\* parse_loop that requests the children of every block, whatever its
\* has_children
RECURSIVE parse_loop_eager(_, _, _)
parse_loop_eager(blocks, i, level) ==
  IF i > Len(blocks) THEN NoWalk
  ELSE LET block == blocks[i]
       IN The({
            IF own.err # "" THEN [NoWalk EXCEPT !.err = own.err]
            ELSE LET line == Rep("  ", level) \o own.text \o Eof(Get(block, "type", "None"))
                 IN The({
                   IF kids.err # ""
                   THEN [err |-> kids.err, text |-> <<>>,
                         rendered |-> <<block.id>> \o kids.rendered, asked |-> kids.asked]
                   ELSE The({[err |-> rest.err,
                              text |-> IF rest.err # "" THEN <<>>
                                       ELSE line \o kids.text \o rest.text,
                              rendered |-> <<block.id>> \o kids.rendered \o rest.rendered,
                              asked |-> kids.asked \o rest.asked] :
                               rest \in {parse_loop_eager(blocks, i + 1, level)}}) :
                      kids \in {The({IF got.err # ""
                                     THEN [err |-> got.err, text |-> <<>>,
                                           rendered |-> <<>>, asked |-> <<block.id>>]
                                     ELSE The({[sub EXCEPT !.asked = <<block.id>> \o sub.asked] :
                                                 sub \in {parse_loop_eager(got.blocks, 1, level + 1)}}) :
                                       got \in {get_blocks(block.id)}})}}) :
              own \in {handle_block(block, level)}})

\* parse_loop with the text of a block appended after the text of its children
RECURSIVE parse_loop_children_first(_, _, _)
parse_loop_children_first(blocks, i, level) ==
  IF i > Len(blocks) THEN NoWalk
  ELSE LET block == blocks[i]
       IN The({
            IF own.err # "" THEN [NoWalk EXCEPT !.err = own.err]
            ELSE LET line == Rep("  ", level) \o own.text \o Eof(Get(block, "type", "None"))
                 IN The({
                   IF kids.err # "" THEN [kids EXCEPT !.text = <<>>]
                   ELSE The({[err |-> rest.err,
                              text |-> IF rest.err # "" THEN <<>>
                                       ELSE kids.text \o line \o rest.text,
                              rendered |-> kids.rendered \o <<block.id>> \o rest.rendered,
                              asked |-> kids.asked \o rest.asked] :
                               rest \in {parse_loop_children_first(blocks, i + 1, level)}}) :
                      kids \in {IF ~Get(block, "has_children", FALSE) THEN NoWalk
                                ELSE The({IF got.err # ""
                                          THEN [err |-> got.err, text |-> <<>>,
                                                rendered |-> <<>>, asked |-> <<block.id>>]
                                          ELSE The({[sub EXCEPT !.asked = <<block.id>> \o sub.asked] :
                                                      sub \in {parse_loop_children_first(got.blocks, 1, level + 1)}}) :
                                            got \in {get_blocks(block.id)}})}}) :
              own \in {handle_block(block, level)}})

\* for block in blocks[i..]: the text appended from block i on, with the
\* history of the blocks rendered and of the requests made: own is the text
\* of the block, kids the walk of its children, rest the walk of the blocks
\* after it
RECURSIVE parse_loop(_, _, _)
parse_loop(blocks, i, level) ==
  IF i > Len(blocks) THEN NoWalk
  ELSE LET block == blocks[i]
       IN The({
            IF own.err # "" THEN [NoWalk EXCEPT !.err = own.err]
            ELSE LET line == Rep("  ", level) \o own.text \o Eof(Get(block, "type", "None"))
                 IN The({
                   IF kids.err # ""
                   THEN [err |-> kids.err, text |-> <<>>,
                         rendered |-> <<block.id>> \o kids.rendered, asked |-> kids.asked]
                   ELSE The({[err |-> rest.err,
                              text |-> IF rest.err # "" THEN <<>>
                                       ELSE line \o kids.text \o rest.text,
                              rendered |-> <<block.id>> \o kids.rendered \o rest.rendered,
                              asked |-> kids.asked \o rest.asked] :
                               rest \in {parse_loop(blocks, i + 1, level)}}) :
                      kids \in {IF ~Get(block, "has_children", FALSE) THEN NoWalk
                                ELSE The({IF got.err # ""
                                          THEN [err |-> got.err, text |-> <<>>,
                                                rendered |-> <<>>, asked |-> <<block.id>>]
                                          ELSE The({[sub EXCEPT !.asked = <<block.id>> \o sub.asked] :
                                                      sub \in {parse_loop(got.blocks, 1, level + 1)}}) :
                                            got \in {get_blocks(block.id)}})}}) :
              own \in {handle_block(block, level)}})

_parse_blocks(blocks, level) == parse_loop(blocks, 1, level)

\* NotionToMarkdown(token, page_id).parse(): self.page_id is the id of the page
parse(self_page_id) ==
  The({IF got.err # ""
       THEN [err |-> got.err, text |-> <<>>, rendered |-> <<>>, asked |-> <<self_page_id>>]
       ELSE The({[walk EXCEPT !.asked = <<self_page_id>> \o walk.asked] :
                   walk \in {_parse_blocks(got.blocks, 0)}}) :
         got \in {get_blocks(self_page_id)}})

----------------------------------------------------------------------------
(* Image stores: ImgStore, ImgStoreLocal, ImgStoreRemoteGithub *)

\* hashlib.md5(img_data).hexdigest(), as three tokens: md5str[:2], md5str[2:4]
\* and md5str[4:].  Distinct contents of the model have distinct digests.
get_md5(img_data) ==
  CASE img_data = "bytes1" -> <<"0c", "c1", "75b9c0f1b6a831c399e269772661">>
    [] img_data = "bytes2" -> <<"9e", "10", "7d9d372bb6826bd81d3542a419d6">>
    [] OTHER -> <<"d4", "1d", "8cd98f00b204e9800998ecf8427e">>

\* ImgStoreRemoteGithub.get_store_path(path)
get_store_path(img_data, img_ext, path) ==
  LET md5str == get_md5(img_data)
  IN <<path, "/", md5str[1], "/", md5str[2], "/">> \o md5str \o img_ext

\* ImgStoreLocal.get_img_filename()
get_img_filename(img_data, img_ext) == get_md5(img_data) \o img_ext

\* ImgStoreLocal.get_img_path(path)
get_img_path(img_data, img_ext, path) == <<path, "/">> \o get_img_filename(img_data, img_ext)

\* kwargs of main(): the defaults of the store prefixes, and the repository
StorePathPrefix == "content/blogs"
UrlPathPrefix == "/content/blogs"
RawHost == "https://raw.githubusercontent.com/user/imgs/"
DefaultBranch == "main"

\* ImgStoreLocal.store(): the file is (over)written, the URL path is returned
ImgStoreLocal_store(img_data, img_ext, lf, gf) ==
  LET store_path == get_img_path(img_data, img_ext, StorePathPrefix)
  IN IF store_down
     THEN [err |-> "OSError", url |-> <<>>, key |-> store_path, local_files |-> lf,
           gh_files |-> gf]
     ELSE [err |-> "", url |-> get_img_path(img_data, img_ext, UrlPathPrefix),
           key |-> store_path, local_files |-> (store_path :> img_data) @@ lf,
           gh_files |-> gf]

\* ImgStoreRemoteGithub.store(): create_file on the configured branch; on a
\* GithubException of status 422 (the path exists there), get_contents and
\* update_file of that path, both called without a branch and so acting on
\* the default branch of the repository; any other exception propagates
ImgStoreRemoteGithub_store(img_data, img_ext, lf, gf) ==
  LET store_path == get_store_path(img_data, img_ext, StorePathPrefix)
      url == <<RawHost, github_branch, "/">> \o store_path
      there == <<github_branch, store_path>>
      default == <<DefaultBranch, store_path>>
  IN IF store_down
     THEN [err |-> "GithubException", url |-> <<>>, key |-> store_path, local_files |-> lf,
           gh_files |-> gf]
     ELSE IF there \notin DOMAIN gf
          THEN [err |-> "", url |-> url, key |-> store_path, local_files |-> lf,
                gh_files |-> (there :> img_data) @@ gf]
          ELSE IF default \notin DOMAIN gf
               THEN [err |-> "UnknownObjectException", url |-> <<>>, key |-> store_path,
                     local_files |-> lf, gh_files |-> gf]
               ELSE [err |-> "", url |-> url, key |-> store_path, local_files |-> lf,
                     gh_files |-> (default :> img_data) @@ gf]

\* self.img_handler_cls(img_data, img_ext, **self.kwargs).store()
store(img_data, img_ext, lf, gf) ==
  IF img_store_type = "local" THEN ImgStoreLocal_store(img_data, img_ext, lf, gf)
  ELSE IF img_store_type = "github" THEN ImgStoreRemoteGithub_store(img_data, img_ext, lf, gf)
       ELSE [err |-> "TypeError", url |-> <<>>, key |-> <<>>, local_files |-> lf,
             gh_files |-> gf]

----------------------------------------------------------------------------
(* Image relocator: ImgHandler *)

IsSpace(tok) == tok \in {" ", "  ", "    ", "\n"}
Quote == "\""

\* the index after the longest run of blanks from q on (\s*, greedy)
RECURSIVE SkipSpace(_, _)
SkipSpace(text, q) ==
  IF q <= Len(text) /\ IsSpace(text[q]) THEN SkipSpace(text, q + 1) ELSE q

\* \s*\) from q on: the index of the closing parenthesis, 0 if none
CloseAt(text, q) ==
  LET r == SkipSpace(text, q)
  IN IF r <= Len(text) /\ text[r] = ")" THEN r ELSE 0

\* ("(?:.*[^"])")? from r on, then \s*\): the closing quotes c that can end a
\* title opened at r: the body r+1..c-1 is not empty, has no newline but
\* possibly as its last token, does not end with a quote, and \s*\) follows
TitleEnds(text, r) ==
  {c \in (r + 2)..Len(text) :
     /\ text[c] = Quote
     /\ text[c - 1] # Quote
     /\ \A h \in (r + 1)..(c - 2) : text[h] # "\n"
     /\ CloseAt(text, c + 1) # 0}

\* \s*("(?:.*[^"])")?\s*\) from q on: the index of the closing parenthesis
\* of the match the regex engine finds first (the title body is greedy),
\* 0 if there is none
RestAt(text, q) ==
  The({IF ends # {}
       THEN CloseAt(text, (CHOOSE c \in ends : \A d \in ends : d <= c) + 1)
       ELSE CloseAt(text, q) :
         ends \in {The({IF r <= Len(text) /\ text[r] = Quote THEN TitleEnds(text, r) ELSE {} :
                          r \in {SkipSpace(text, q)}})}})

\* (.*?), lazy: the shortest URL p..p+k-1 without a newline after which the
\* rest of the pattern matches
RECURSIVE UrlLazy(_, _, _)
UrlLazy(text, p, k) ==
  The({IF end # 0 THEN [ok |-> TRUE, k |-> k, end |-> end]
       ELSE IF p + k <= Len(text) /\ text[p + k] # "\n" THEN UrlLazy(text, p, k + 1)
            ELSE [ok |-> FALSE, k |-> 0, end |-> 0] :
         end \in {RestAt(text, p + k)}})

\* ImgHandler.pattern at index i: ^(!\[[^\]]*\]\((.*?)\s*("(?:.*[^"])")?\s*\))
\* with re.MULTILINE
MatchAt(text, i) ==
  LET none == [ok |-> FALSE, match_text |-> <<>>, imglink |-> <<>>, end |-> 0]
  IN IF ~(i = 1 \/ text[i - 1] = "\n") THEN none
     ELSE IF ~(i + 1 <= Len(text) /\ text[i] = "!" /\ text[i + 1] = "[") THEN none
     ELSE The({
       IF closers = {} THEN none
       ELSE The({
         IF ~(j + 1 <= Len(text) /\ text[j + 1] = "(") THEN none
         ELSE The({IF ~url.ok THEN none
                   ELSE [ok |-> TRUE, match_text |-> SubSeq(text, i, url.end),
                         imglink |-> SubSeq(text, j + 2, j + 1 + url.k), end |-> url.end] :
                     url \in {UrlLazy(text, j + 2, 0)}}) :
           j \in {h \in closers : \A g \in closers : h <= g}}) :
         closers \in {{j \in (i + 2)..Len(text) : text[j] = "]"}}})

\* ^ with re.MULTILINE: the first index from i on that starts a line, the
\* index after the text if there is none
LineStart(text, i) ==
  The({IF starts = {} THEN Len(text) + 1 ELSE CHOOSE j \in starts : \A h \in starts : j <= h :
         starts \in {{j \in i..Len(text) : j = 1 \/ text[j - 1] = "\n"}}})

\* self.pattern.findall(text): the matches from index i on, left to right,
\* not overlapping; the pattern is tried at the starts of the lines, the only
\* indices where it can match
RECURSIVE findall(_, _)
findall(text, i) ==
  The({IF j > Len(text) THEN <<>>
       ELSE The({IF m.ok THEN <<[match_text |-> m.match_text, imglink |-> m.imglink]>>
                             \o findall(text, m.end + 1)
                 ELSE findall(text, j + 1) :
                   m \in {MatchAt(text, j)}}) :
         j \in {LineStart(text, i)}})

\* s[i..] starts with old
StartsAt(s, i, old) ==
  i + Len(old) - 1 <= Len(s) /\ \A k \in 1..Len(old) : s[i + k - 1] = old[k]

\* str.replace(old, new) for a non-empty old: every occurrence, left to right,
\* not overlapping
RECURSIVE replace_from(_, _, _, _)
replace_from(s, i, old, new) ==
  IF i > Len(s) THEN <<>>
  ELSE IF StartsAt(s, i, old) THEN new \o replace_from(s, i + Len(old), old, new)
       ELSE <<s[i]>> \o replace_from(s, i + 1, old, new)

\* str.replace('', new): new before every token and at the end
RECURSIVE replace_empty(_, _, _)
replace_empty(s, i, new) ==
  IF i > Len(s) THEN new ELSE new \o <<s[i]>> \o replace_empty(s, i + 1, new)

replace(s, old, new) ==
  IF old = <<>> THEN replace_empty(s, 1, new) ELSE replace_from(s, 1, old, new)

\* ImgHandler.exclude_pattern: ^https://kroki.io/
is_exclude(imglink) == Len(imglink) >= 1 /\ imglink[1] = "https://kroki.io/"

\* the extensions of the URLs of the model
ExtTokens == {".png", ".PNG", ".jpg"}
IsQuery(tok) == tok \in {"?sig"}

\* urlparse(imglink).path: the URL up to its query
RECURSIVE url_path(_)
url_path(imglink) ==
  IF Len(imglink) = 0 \/ IsQuery(imglink[1]) THEN <<>>
  ELSE <<imglink[1]>> \o url_path(Tail(imglink))

\* get_ext_from_imglink on the whole URL, its query included
get_ext_of_whole_link(imglink) ==
  IF Len(imglink) > 0 /\ imglink[Len(imglink)] \in ExtTokens
  THEN <<imglink[Len(imglink)]>> ELSE <<>>

\* os.path.splitext(url_path)[1]
get_ext_from_imglink(imglink) ==
  The({IF Len(path) > 0 /\ path[Len(path)] \in ExtTokens THEN <<path[Len(path)]>> ELSE <<>> :
         path \in {url_path(imglink)}})

\* requests.get(url).content: the bytes a host of the model serves, the file
\* of the github store behind its raw URL; a host that is down, and a URL
\* that is no URL of a host (the empty URL, a path of the local store), raise
get_img_data_from_url(url, gf) ==
  IF url \in DOMAIN web
  THEN IF web[url] = "down" THEN [err |-> "ConnectionError", content |-> "None"]
       ELSE [err |-> "", content |-> web[url]]
  ELSE IF Len(url) > 3 /\ url[1] = RawHost /\ <<url[2], SubSeq(url, 4, Len(url))>> \in DOMAIN gf
       THEN [err |-> "", content |-> gf[<<url[2], SubSeq(url, 4, Len(url))>>]]
       ELSE IF Len(url) > 0 /\ url[1] = RawHost
            THEN [err |-> "", content |-> "notfound"]
            ELSE [err |-> "MissingSchema", content |-> "None"]

\* for item in items[k..]: the loop of extract_n_replace_imglink from item k
\* on, st holding self.markdown_text, the stores and the history.  The image
\* is stored only when its bytes were fetched: relocate_item does not use put
\* when the request raised.
RECURSIVE relocate_loop(_, _, _)

\* the body of the loop for a reference that is not excluded: img is the
\* response of the host, put the result of store()
relocate_item(items, k, st, img, put) ==
  LET match_text == items[k].match_text
      imglink == items[k].imglink
      img_text == replace(match_text, imglink, put.url)
      call == [link |-> imglink, data |-> img.content, key |-> put.key, url |-> put.url,
               after |-> IF put.err # "" THEN st.text
                         ELSE replace(st.text, match_text, img_text)]
  IN IF img.err # ""
     THEN [st EXCEPT !.err = img.err, !.fetched = Append(@, imglink)]
     ELSE IF put.err # ""
          THEN [st EXCEPT !.err = put.err, !.fetched = Append(@, imglink),
                          !.stored = Append(@, call)]
          ELSE The({relocate_loop(items, k + 1, next) :
                      next \in {[err |-> "",
                                 text |-> replace(st.text, match_text, img_text),
                                 fetched |-> Append(st.fetched, imglink),
                                 stored |-> Append(st.stored, call),
                                 local_files |-> put.local_files,
                                 gh_files |-> put.gh_files]}})

relocate_loop(items, k, st) ==
  IF k > Len(items) THEN st
  ELSE IF is_exclude(items[k].imglink) THEN relocate_loop(items, k + 1, st)
       ELSE The({The({relocate_item(items, k, st, img, put) :
                        put \in {store(img.content, get_ext_from_imglink(items[k].imglink),
                                       st.local_files, st.gh_files)}}) :
                   img \in {get_img_data_from_url(items[k].imglink, st.gh_files)}})

\* ImgHandler(markdown_text, img_store_type, **kwargs).extract_n_replace_imglink()
extract_n_replace_imglink(text, lf, gf) ==
  The({relocate_loop(items, 1,
                     [err |-> "", text |-> text, fetched |-> <<>>, stored |-> <<>>,
                      local_files |-> lf, gh_files |-> gf]) :
         items \in {findall(text, 1)}})

----------------------------------------------------------------------------
(* The walk of one page: NotionToMarkdown(token, page_id).parse() *)

MaxBlocks == 3   \* blocks of the page
MaxPage == 2     \* results the block source returns per page
MaxRows == 3     \* rows of the child database

PageId == 0

TextRun(t) == [type |-> "text", plain_text |-> <<t>>, annotations |-> [color |-> "default"]]
BoldRun(t) == [type |-> "text", plain_text |-> <<t>>,
               annotations |-> [bold |-> TRUE, color |-> "default"]]
MentionRun(kind, t) ==
  [type |-> "mention", plain_text |-> <<t>>, href |-> <<"https://h/", t>>,
   mention |-> [type |-> kind], annotations |-> [color |-> "default"]]

U1 == <<"https://a/", "cat", ".png">>
U2 == <<"https://b/", "dog", ".PNG", "?sig">>
U3 == <<"https://b/", "owl", ".jpg">>
UK == <<"https://kroki.io/", "diagram">>
\* an excluded URL that holds the text of an image reference to U1
UKU == <<"https://kroki.io/", "!", "[", "]", "(">> \o U1

ImageData(url) == [type |-> "external", external |-> [url |-> url]]

\* the contents a block of the walked page may have
WalkKinds ==
  { [type |-> "paragraph", data |-> [rich_text |-> <<TextRun("a"), BoldRun("b")>>]],
    [type |-> "paragraph", data |-> [rich_text |-> <<MentionRun("user", "u")>>]],
    [type |-> "bulleted_list_item",
     data |-> [rich_text |-> <<MentionRun("link_preview", "p")>>]],
    [type |-> "image", data |-> ImageData(U1)],
    [type |-> "table_row", data |-> [cells |-> << <<TextRun("c")>>, <<TextRun("d")>> >>]],
    [type |-> "table_of_contents", data |-> [color |-> "default"]],
    [type |-> "unsupported", data |-> [none |-> TRUE]],
    [type |-> "toggle", data |-> [rich_text |-> <<TextRun("t")>>]] }

\* the children of parent p, in the order of their ids, among blocks 1..n
RECURSIVE ChildrenFrom(_, _, _, _, _)
ChildrenFrom(p, j, n, parent, kind) ==
  IF j > n THEN <<>>
  ELSE IF parent[j] = p
       THEN <<[id |-> j, type |-> kind[j].type, data |-> kind[j].data,
               has_children |-> \E c \in 1..n : parent[c] = j]>>
            \o ChildrenFrom(p, j + 1, n, parent, kind)
       ELSE ChildrenFrom(p, j + 1, n, parent, kind)

\* the page whose blocks 1..n have the given parents (0 is the page) and contents
TreeOf(n, parent, kind) == [p \in 0..n |-> ChildrenFrom(p, 1, n, parent, kind)]

Parents(n) == {f \in [1..n -> 0..n] : \A j \in 1..n : f[j] < j}

Quiet ==
  /\ api_down = {}
  /\ web = (U1 :> "bytes1")
  /\ img_store_type = "local"
  /\ github_branch = DefaultBranch
  /\ store_down = FALSE
  /\ local_files = <<>>
  /\ gh_files = <<>>
  /\ page_nodes = <<>>
  /\ doc_ix = 0
  /\ page_id = PageId
  /\ markdown_text = <<>>
  /\ err = ""
  /\ rendered = <<>>
  /\ asked = <<>>
  /\ fetched = <<>>
  /\ stored = <<>>
  /\ before_text = <<>>
  /\ md_files = <<>>

\* a page of up to MaxBlocks blocks, no child database
InitWalk ==
  /\ \E n \in 1..MaxBlocks : \E parent \in Parents(n) : \E kind \in [1..n -> WalkKinds] :
       tree = TreeOf(n, parent, kind)
  /\ page_limit \in 1..MaxPage
  /\ database = <<>>
  /\ pc = "start"
  /\ Quiet

TitleField == [type |-> "title", title |-> <<TextRun("r")>>]
TextField == [type |-> "rich_text", rich_text |-> <<TextRun("x")>>]

\* the properties a row of the child database may have
RowShapes ==
  { <<>>,
    <<[name |-> "Name", data |-> TitleField]>>,
    <<[name |-> "Name", data |-> TitleField], [name |-> "Tag", data |-> TextField]>>,
    <<[name |-> "Note", data |-> TextField], [name |-> "Name", data |-> TitleField]>> }

\* a page of one child database of up to MaxRows rows, followed by a paragraph
InitDb ==
  /\ tree = TreeOf(2, <<0, 0>>,
                   <<[type |-> "child_database", data |-> [title |-> "db"]],
                     [type |-> "paragraph", data |-> [rich_text |-> <<TextRun("a")>>]]>>)
  /\ page_limit \in 1..MaxPage
  /\ \E n \in 0..MaxRows : \E shape \in [1..n -> RowShapes] :
       database = [i \in 1..n |-> [properties |-> shape[i]]]
  /\ pc = "start_db"
  /\ Quiet

Init == InitWalk \/ InitDb

\* markdown_text = NotionToMarkdown(notion_token, page_id).parse(), on its own
Parse ==
  /\ pc \in {"start", "start_db"}
  /\ \E r \in {parse(page_id)} :
        /\ markdown_text' = r.text
        /\ err' = r.err
        /\ rendered' = r.rendered
        /\ asked' = r.asked
  /\ pc' = IF pc = "start" THEN "parsed" ELSE "parsed_db"
  /\ UNCHANGED <<notion_vars, env_vars, store_vars, main_vars, fetched, stored, before_text>>

\* markdown_text = ImgHandler(markdown_text, img_store_type,
\*                            **img_store_kwargs).extract_n_replace_imglink()
\* on the text of a completed walk, or on a given text
Relocate ==
  /\ pc \in {"parsed", "text"}
  /\ err = ""
  /\ \E r \in {extract_n_replace_imglink(markdown_text, local_files, gh_files)} :
        /\ markdown_text' = r.text
        /\ err' = r.err
        /\ fetched' = r.fetched
        /\ stored' = r.stored
        /\ local_files' = r.local_files
        /\ gh_files' = r.gh_files
  /\ before_text' = markdown_text
  /\ pc' = "relocated"
  /\ UNCHANGED <<notion_vars, env_vars, main_vars, rendered, asked>>

Next == Parse \/ Relocate

Spec == Init /\ [][Next]_vars

----------------------------------------------------------------------------
(* The formatting of one inline run: NotionToMarkdown.handle_element_text *)

Flags == {"bold", "italic", "strikethrough", "underline", "code"}

\* the annotations with the flags of on set: every flag present, or only the
\* flags that are set
AnnotationsOf(on, explicit, color) ==
  [f \in (IF explicit THEN Flags ELSE on) |-> f \in on] @@ [color |-> color]

\* a run of text "x", with a link or without
RunOf(annotations, href) ==
  IF href = <<>> THEN [type |-> "text", plain_text |-> <<"x">>, annotations |-> annotations]
  ELSE [type |-> "text", plain_text |-> <<"x">>, href |-> href, annotations |-> annotations]

\* a page of one paragraph of one run
InitFormat ==
  /\ \E on \in SUBSET Flags : \E explicit \in BOOLEAN : \E color \in {"default", "red"} :
     \E href \in {<<>>, <<"https://h/", "x">>} :
       tree = TreeOf(1, <<0>>,
                     <<[type |-> "paragraph",
                        data |-> [rich_text |-> <<RunOf(AnnotationsOf(on, explicit, color), href)>>]]>>)
  /\ page_limit = DbPageSize
  /\ database = <<>>
  /\ pc = "run"
  /\ Quiet

\* block_text += getattr(self, f'handle_element_{element_type}')(element), for
\* the run of the paragraph
Format ==
  /\ pc = "run"
  /\ \E r \in {handle_element(tree[page_id][1].data.rich_text[1])} :
       /\ markdown_text' = r.text
       /\ err' = r.err
  /\ pc' = "formatted"
  /\ UNCHANGED <<notion_vars, env_vars, store_vars, main_vars, rendered, asked, fetched,
                 stored, before_text>>

NextFormat == Format

SpecFormat == InitFormat /\ [][NextFormat]_vars

----------------------------------------------------------------------------
(* Relocation of a given text, once and once more *)

MaxLines == 2   \* lines of the text

U4 == <<"https://c/", "pup", ".PNG">>

Img(alt, url, title) == <<"!", "[">> \o alt \o <<"]", "(">> \o url \o title \o <<")">>

\* the lines a text may hold
LineChoices ==
  { Img(<<>>, U1, <<>>),
    Img(<<>>, U2, <<>>),
    Img(<<>>, U3, <<>>),
    Img(<<>>, U4, <<>>),
    Img(<<>>, UK, <<>>),
    Img(<<>>, UKU, <<>>),
    Img(<<"alt">>, U1, <<" ", Quote, "title", Quote>>),
    <<"  ">> \o Img(<<>>, U1, <<>>),
    <<"see ">> \o Img(<<>>, U1, <<>>),
    <<"a">> }

RECURSIVE TextOfLines(_)
TextOfLines(lines) ==
  IF Len(lines) = 0 THEN <<>> ELSE lines[1] \o <<"\n", "\n">> \o TextOfLines(Tail(lines))

\* what the hosts serve: U1, U2 and U4 are the same image
WebUp == (U1 :> "bytes1") @@ (U2 :> "bytes1") @@ (U4 :> "bytes1") @@ (U3 :> "bytes2")
WebU3Down == (U3 :> "down") @@ WebUp

InitReloc ==
  /\ \E n \in 1..MaxLines : \E lines \in [1..n -> LineChoices] :
       markdown_text = TextOfLines(lines)
  /\ web \in {WebUp, WebU3Down}
  /\ \E cfg \in {<<"local", DefaultBranch>>, <<"github", DefaultBranch>>, <<"github", "img">>} :
       img_store_type = cfg[1] /\ github_branch = cfg[2]
  /\ store_down \in BOOLEAN
  /\ tree = <<>> /\ page_limit = DbPageSize /\ database = <<>> /\ api_down = {}
  /\ local_files = <<>> /\ gh_files = <<>>
  /\ page_nodes = <<>> /\ doc_ix = 0 /\ page_id = PageId /\ md_files = <<>>
  /\ pc = "text" /\ err = ""
  /\ rendered = <<>> /\ asked = <<>> /\ fetched = <<>> /\ stored = <<>>
  /\ before_text = <<>>

\* a second ImgHandler on the text the first one returned
RelocateAgain ==
  /\ pc = "relocated"
  /\ err = ""
  /\ \E r \in {extract_n_replace_imglink(markdown_text, local_files, gh_files)} :
        /\ markdown_text' = r.text
        /\ err' = r.err
        /\ fetched' = r.fetched
        /\ stored' = r.stored
        /\ local_files' = r.local_files
        /\ gh_files' = r.gh_files
  /\ before_text' = markdown_text
  /\ pc' = "relocated_again"
  /\ UNCHANGED <<notion_vars, env_vars, main_vars, rendered, asked>>

NextReloc == Relocate \/ RelocateAgain

SpecReloc == InitReloc /\ [][NextReloc]_vars

----------------------------------------------------------------------------
(* Notion: the accessors of a document of the database *)

\* str.strip() of a text gives the empty string
IsBlank(text) == \A k \in 1..Len(text) : IsSpace(text[k])

\* str.strip()
RECURSIVE strip(_)
strip(text) ==
  IF Len(text) > 0 /\ IsSpace(text[1]) THEN strip(Tail(text))
  ELSE IF Len(text) > 0 /\ IsSpace(text[Len(text)]) THEN strip(SubSeq(text, 1, Len(text) - 1))
       ELSE text

\* for i in runs: text += i["plain_text"]
RECURSIVE plain_texts(_)
plain_texts(runs) ==
  IF Len(runs) = 0 THEN <<>> ELSE runs[1].plain_text \o plain_texts(Tail(runs))

\* Notion.title(data): the field has no type (KeyError) or another type
\* (TypeError), or the text of its runs is returned
title(data) ==
  LET title_node == Get(data.properties, "Name", [none |-> TRUE])
  IN IF "type" \notin DOMAIN title_node THEN Raise("KeyError")
     ELSE IF title_node.type # "title" THEN Raise("TypeError")
          ELSE Ok(plain_texts(title_node.title))

\* Notion.md_filename(data)
md_filename(data) ==
  LET rich_text_node == Get(data.properties, "MDFilename", [none |-> TRUE])
  IN IF "type" \notin DOMAIN rich_text_node THEN Raise("KeyError")
     ELSE IF rich_text_node.type # "rich_text" THEN Raise("TypeError")
          ELSE Ok(plain_texts(rich_text_node.rich_text))

\* the ids of the pages the runs mention
RECURSIVE mentions_of(_)
mentions_of(runs) ==
  IF Len(runs) = 0 THEN <<>>
  ELSE (IF runs[1].type = "mention" THEN <<runs[1].mention.page.id>> ELSE <<>>)
       \o mentions_of(Tail(runs))

\* None as a page id: an id Notion serves no page for
NoneId == 999

\* Notion.get_page_id(data): the first page mentioned, None if there is none
get_page_id(data) ==
  LET rich_text_node == Get(data.properties, "Article", [none |-> TRUE])
  IN IF "type" \notin DOMAIN rich_text_node THEN [err |-> "KeyError", id |-> NoneId]
     ELSE IF rich_text_node.type # "rich_text" THEN [err |-> "TypeError", id |-> NoneId]
          ELSE The({[err |-> "", id |-> IF Len(mentions) > 0 THEN mentions[1] ELSE NoneId] :
                      mentions \in {mentions_of(rich_text_node.rich_text)}})

\* Notion.create_at(data)
create_at(data) ==
  Get(Get(data.properties, "CreateAt", [none |-> TRUE]), "created_time", "")

\* Notion.tags(data)
tags(data) ==
  LET tags_node == Get(Get(data.properties, "Tags", [none |-> TRUE]), "multi_select", <<>>)
  IN [k \in 1..Len(tags_node) |-> tags_node[k].name]

\* get_markdown_with_yaml_header(): the header between two rules, the quotes
\* taken out of it, then three empty lines and the article
get_markdown_with_yaml_header(page_node, article_content) ==
  The({IF t.err # "" THEN t
       ELSE Ok(<<"---", "\n", "title: ">> \o SelectSeq(t.text, LAMBDA tok : tok # Quote)
               \o <<"\n", "date: ", create_at(page_node), "\n", "draft: false", "\n",
                    "author: Jacky", "\n", "tags:">> \o tags(page_node)
               \o <<"\n", "image:", "\n", "description: notion-ci", "\n", "toc:", "\n",
                    "socialShare: false", "\n", "---", "\n", "\n", "\n", "\n">>
               \o article_content) :
         t \in {title(page_node)}})

\* kwargs of main(): the default of the directory of the Markdown files
MdStorePathPrefix == "content/blogs"

\* save_markdown_file(): the path of the file written
md_filepath(path_prefix, filename) ==
  The({<<path_prefix, "/">> \o name
       \o (IF Len(name) > 0 /\ name[Len(name)] = ".md" THEN <<>> ELSE <<".md">>) :
         name \in {strip(filename)}})

----------------------------------------------------------------------------
(* The driver: main() over the documents of the database *)

MaxDocs == 2   \* documents main() iterates over

\* the pages of the documents: a paragraph, an image, an image of another host
MainTree ==
  (10 :> <<[id |-> 11, type |-> "paragraph", has_children |-> FALSE,
            data |-> [rich_text |-> <<TextRun("a")>>]]>>)
  @@ (20 :> <<[id |-> 21, type |-> "image", has_children |-> FALSE, data |-> ImageData(U1)]>>)
  @@ (30 :> <<[id |-> 31, type |-> "image", has_children |-> FALSE, data |-> ImageData(U3)]>>)

TitleOf(t) == [type |-> "title", title |-> <<[plain_text |-> <<t>>]>>]
ArticleOf(id) ==
  [type |-> "rich_text",
   rich_text |-> <<[type |-> "text", plain_text |-> <<"see">>],
                   [type |-> "mention", mention |-> [page |-> [id |-> id]]]>>]
FilenameOf(name) == [type |-> "rich_text", rich_text |-> <<[plain_text |-> <<name>>]>>]

Doc(id, name, article, filename) ==
  [id |-> id,
   properties |-> [Name |-> name, Article |-> article, MDFilename |-> filename,
                   CreateAt |-> [created_time |-> "2024-01-01"],
                   Tags |-> [multi_select |-> <<[name |-> "blog"]>>]]]

\* the documents the database may hold: well-formed ones, and ones with a
\* title of another type, a blank title, an article field of another type or
\* without a mention, a file name field of another type
DocKinds ==
  { Doc(1, TitleOf("T"), ArticleOf(10), FilenameOf("post")),
    Doc(2, TitleOf("T"), ArticleOf(20), FilenameOf("cat")),
    Doc(3, TitleOf("T"), ArticleOf(30), FilenameOf("owl")),
    Doc(4, [type |-> "rich_text", rich_text |-> <<>>], ArticleOf(10), FilenameOf("post")),
    Doc(5, TitleOf(" "), ArticleOf(10), FilenameOf("post")),
    Doc(6, TitleOf("T"), [type |-> "title", title |-> <<>>], FilenameOf("post")),
    Doc(7, TitleOf("T"),
        [type |-> "rich_text", rich_text |-> <<[type |-> "text", plain_text |-> <<"see">>]>>],
        FilenameOf("post")),
    Doc(8, TitleOf("T"), ArticleOf(20), [type |-> "title", title |-> <<>>]) }

InitMain ==
  /\ \E n \in 1..MaxDocs : page_nodes \in [1..n -> DocKinds]
  /\ tree = MainTree
  /\ page_limit = DbPageSize
  /\ database = <<>>
  /\ api_down \in {{}, {10}}
  /\ web \in {WebUp, WebU3Down}
  /\ \E cfg \in {<<"local", DefaultBranch>>, <<"github", DefaultBranch>>, <<"github", "img">>} :
       img_store_type = cfg[1] /\ github_branch = cfg[2]
  /\ store_down \in BOOLEAN
  /\ local_files = <<>> /\ gh_files = <<>>
  /\ doc_ix = 0 /\ page_id = NoneId /\ md_files = <<>>
  /\ pc = "loop" /\ err = "" /\ markdown_text = <<>>
  /\ rendered = <<>> /\ asked = <<>> /\ fetched = <<>> /\ stored = <<>>
  /\ before_text = <<>>

\* for page_node in page_nodes: if not notion.title(page_node).strip(): continue
MainTitle ==
  /\ pc = "loop"
  /\ doc_ix < Len(page_nodes)
  /\ \E t \in {title(page_nodes[doc_ix + 1])} :
       /\ err' = t.err
       /\ pc' = IF t.err # "" THEN "crashed" ELSE IF IsBlank(t.text) THEN "loop" ELSE "page_id"
       /\ doc_ix' = IF t.err = "" /\ IsBlank(t.text) THEN doc_ix + 1 ELSE doc_ix
  /\ UNCHANGED <<notion_vars, env_vars, store_vars, page_nodes, page_id, md_files,
                 markdown_text, rendered, asked, fetched, stored, before_text>>

\* page_id = notion.get_page_id(page_node)
MainGetPageId ==
  /\ pc = "page_id"
  /\ \E r \in {get_page_id(page_nodes[doc_ix + 1])} :
       /\ err' = r.err
       /\ page_id' = r.id
       /\ pc' = IF r.err # "" THEN "crashed" ELSE "parse"
  /\ UNCHANGED <<notion_vars, env_vars, store_vars, page_nodes, doc_ix, md_files,
                 markdown_text, rendered, asked, fetched, stored, before_text>>

\* markdown_text = NotionToMarkdown(notion_token, page_id).parse()
MainParse ==
  /\ pc = "parse"
  /\ \E r \in {parse(page_id)} :
       /\ err' = r.err
       /\ markdown_text' = IF r.err # "" THEN markdown_text ELSE r.text
       /\ rendered' = r.rendered
       /\ asked' = r.asked
       /\ pc' = IF r.err # "" THEN "crashed" ELSE "relocate"
  /\ UNCHANGED <<notion_vars, env_vars, store_vars, main_vars, fetched, stored, before_text>>

\* MainRelocate with the exception of the relocation caught and the text it
\* had got to handed on
MainRelocateCaught ==
  /\ pc = "relocate"
  /\ \E r \in {extract_n_replace_imglink(markdown_text, local_files, gh_files)} :
       /\ err' = ""
       /\ markdown_text' = r.text
       /\ fetched' = r.fetched
       /\ stored' = r.stored
       /\ local_files' = r.local_files
       /\ gh_files' = r.gh_files
       /\ pc' = "save"
  /\ before_text' = markdown_text
  /\ UNCHANGED <<notion_vars, env_vars, main_vars, rendered, asked>>

\* img_handler = ImgHandler(markdown_text, img_store_type, **img_store_kwargs)
\* markdown_text = img_handler.extract_n_replace_imglink()
\* an exception leaves markdown_text unassigned, and what was stored stored
MainRelocate ==
  /\ pc = "relocate"
  /\ \E r \in {extract_n_replace_imglink(markdown_text, local_files, gh_files)} :
       /\ err' = r.err
       /\ markdown_text' = IF r.err # "" THEN markdown_text ELSE r.text
       /\ fetched' = r.fetched
       /\ stored' = r.stored
       /\ local_files' = r.local_files
       /\ gh_files' = r.gh_files
       /\ pc' = IF r.err # "" THEN "crashed" ELSE "save"
  /\ before_text' = markdown_text
  /\ UNCHANGED <<notion_vars, env_vars, main_vars, rendered, asked>>

\* markdown_with_header = get_markdown_with_yaml_header(page_node, markdown_text, notion)
\* save_markdown_file(md_store_path_prefix, markdown_with_header,
\*                    notion.md_filename(page_node))
\* and the loop goes on to the next document
MainSave ==
  /\ pc = "save"
  /\ \E h \in {get_markdown_with_yaml_header(page_nodes[doc_ix + 1], markdown_text)} :
     \E f \in {md_filename(page_nodes[doc_ix + 1])} :
       /\ err' = IF h.err # "" THEN h.err ELSE f.err
       /\ pc' = IF h.err # "" \/ f.err # "" THEN "crashed" ELSE "loop"
       /\ doc_ix' = IF h.err # "" \/ f.err # "" THEN doc_ix ELSE doc_ix + 1
       /\ md_files' = IF h.err # "" \/ f.err # "" THEN md_files
                      ELSE Append(md_files, [doc |-> doc_ix + 1,
                                             path |-> md_filepath(MdStorePathPrefix, f.text),
                                             content |-> h.text])
  /\ UNCHANGED <<notion_vars, env_vars, store_vars, page_nodes, page_id,
                 markdown_text, rendered, asked, fetched, stored, before_text>>

\* logger.info("all done!!!")
MainDone ==
  /\ pc = "loop"
  /\ doc_ix = Len(page_nodes)
  /\ pc' = "done"
  /\ UNCHANGED <<notion_vars, env_vars, store_vars, main_vars, markdown_text, err,
                 rendered, asked, fetched, stored, before_text>>

NextMain == MainTitle \/ MainGetPageId \/ MainParse \/ MainRelocate \/ MainSave \/ MainDone

SpecMain == InitMain /\ [][NextMain]_vars

----------------------------------------------------------------------------
(* The page as Notion holds it, for the statements about the walk *)

Range(f) == {f[k] : k \in DOMAIN f}

AllBlocks == UNION {Range(tree[p]) : p \in DOMAIN tree}
BlockOf(id) == CHOOSE b \in AllBlocks : b.id = id
ParentOf(id) == CHOOSE p \in DOMAIN tree : \E k \in 1..Len(tree[p]) : tree[p][k].id = id

RECURSIVE Depth(_)
Depth(id) == IF ParentOf(id) = PageId THEN 0 ELSE 1 + Depth(ParentOf(id))

\* a is a proper ancestor of b
RECURSIVE IsAncestor(_, _)
IsAncestor(a, b) ==
  ParentOf(b) # PageId /\ (ParentOf(b) = a \/ IsAncestor(a, ParentOf(b)))

InSubtree(a, b) == b = a \/ IsAncestor(a, b)

Count(seq, x) == Cardinality({k \in 1..Len(seq) : seq[k] = x})

\* what one block contributes to the text: indent, rendered text, separator
BlockLine(id) ==
  Rep("  ", Depth(id)) \o handle_block(BlockOf(id), Depth(id)).text \o Eof(BlockOf(id).type)

RECURSIVE LinesOf(_)
LinesOf(ids) == IF Len(ids) = 0 THEN <<>> ELSE BlockLine(ids[1]) \o LinesOf(Tail(ids))

\* C1: a completed walk emits the block texts in depth-first pre-order: the
\* text is the texts of the rendered blocks one after the other, a block
\* comes before its descendants, and the whole subtree of a block comes
\* before the siblings that follow it in the source order.
C1_PreOrder ==
  (pc = "parsed" /\ err = "") =>
    /\ markdown_text = LinesOf(rendered)
    /\ \A a, b \in 1..Len(rendered) :
         IsAncestor(rendered[a], rendered[b]) => a < b
    /\ \A p \in DOMAIN tree : \A i, j \in 1..Len(tree[p]) :
         i < j => \A a, b \in 1..Len(rendered) :
                    (InSubtree(tree[p][i].id, rendered[a]) /\ InSubtree(tree[p][j].id, rendered[b]))
                    => a < b

\* the walk of: A (block 1) with child A1 (block 3), then B (block 2)
C1_Witness ==
  /\ pc = "parsed" /\ err = ""
  /\ rendered = <<1, 3, 2>>
  /\ ParentOf(3) = 1 /\ ParentOf(2) = PageId /\ ParentOf(1) = PageId
  /\ BlockOf(1).type = "paragraph" /\ BlockOf(3).type = "bulleted_list_item"
  /\ BlockOf(2).type = "image"

\* C2: every child on every page of a block whose children were requested is
\* rendered exactly once.
C2_AllPagesRendered ==
  (pc = "parsed" /\ err = "") =>
    \A k \in 1..Len(asked) : \A c \in 1..Len(tree[asked[k]]) :
      Count(rendered, tree[asked[k]][c].id) = 1

\* s.split(" | ")
RECURSIVE SplitBar(_)
SplitBar(s) ==
  IF \A k \in 1..Len(s) : s[k] # " | " THEN <<s>>
  ELSE LET k == CHOOSE j \in 1..Len(s) :
                   s[j] = " | " /\ \A h \in 1..(j - 1) : s[h] # " | "
       IN <<SubSeq(s, 1, k - 1)>> \o SplitBar(SubSeq(s, k + 1, Len(s)))

\* the names of the properties of the rows, and those of type title
DbNames == UNION {{database[i].properties[k].name : k \in 1..Len(database[i].properties)} :
                    i \in 1..Len(database)}
DbTitles == UNION {{database[i].properties[k].name :
                      k \in {h \in 1..Len(database[i].properties) :
                               database[i].properties[h].data.type = "title"}} :
                     i \in 1..Len(database)}

\* C3: the child database is rendered as a table of one data row per row of
\* the database, whatever the number of pages the rows come in: the title
\* property is column 1, every other property name is exactly one further
\* column, and every data row has one cell per column.
C3_DatabaseTable ==
  (pc = "parsed_db") =>
    /\ err = ""
    /\ LET lines == SplitLines(markdown_text)
           header == SplitBar(lines[1])
       IN /\ Len(lines) >= 2 + Len(database)
          /\ DbTitles # {} => header[1] \in {<<t>> : t \in DbTitles}
          /\ {header[c] : c \in 2..Len(header)} = {<<f>> : f \in DbNames \ DbTitles}
          /\ Len(header) = 1 + Cardinality(DbNames \ DbTitles)
          /\ \A i \in 1..Len(database) : Len(SplitBar(lines[2 + i])) = Len(header)

\* C8: unsupported content never aborts the walk: it completes without an
\* exception and every block of the first page of every walked parent is
\* rendered.
C8_NeverAborts ==
  (pc = "parsed") =>
    /\ err = ""
    /\ \A k \in 1..Len(asked) : \A c \in 1..Min(page_limit, Len(tree[asked[k]])) :
         Count(rendered, tree[asked[k]][c].id) = 1

----------------------------------------------------------------------------
(* Statements about the relocation of images *)

\* sub occurs in text
Occurs(text, sub) == \E i \in 1..Len(text) : StartsAt(text, i, sub)

\* the URL an image block carries
ImageUrl(block) == block.data[block.data.type].url

\* C4: after the walk and the relocation of its text, every rendered image
\* block whose URL is not excluded, at whatever depth, was fetched and
\* stored, its reference in the text holds the URL the store returned, and
\* its remote URL is no longer in the text.
C4_EveryImageRelocated ==
  (pc = "relocated" /\ err = "") =>
    \A k \in 1..Len(rendered) :
      (BlockOf(rendered[k]).type = "image" /\ ~is_exclude(ImageUrl(BlockOf(rendered[k])))) =>
        /\ \E f \in 1..Len(fetched) : fetched[f] = ImageUrl(BlockOf(rendered[k]))
        /\ \E c \in 1..Len(stored) :
             /\ stored[c].link = ImageUrl(BlockOf(rendered[k]))
             /\ Occurs(markdown_text, Img(<<>>, stored[c].url, <<>>))
        /\ ~Occurs(markdown_text, ImageUrl(BlockOf(rendered[k])))

\* C5: a relocation leaves the excluded references as they were: the text
\* has the same references after as before, the URL of an excluded one is
\* the same, and it was neither fetched nor stored.
C5_ExcludedUntouched ==
  (pc = "relocated" /\ err = "") =>
    /\ Len(findall(markdown_text, 1)) = Len(findall(before_text, 1))
    /\ \A k \in 1..Len(findall(before_text, 1)) :
         is_exclude(findall(before_text, 1)[k].imglink) =>
           /\ findall(markdown_text, 1)[k].imglink = findall(before_text, 1)[k].imglink
           /\ \A f \in 1..Len(fetched) : fetched[f] # findall(before_text, 1)[k].imglink
           /\ \A c \in 1..Len(stored) : stored[c].link # findall(before_text, 1)[k].imglink

\* a URL an image store returns: a path under the URL prefix of the local
\* store, or a raw URL of the github repository
IsStoreUrl(imglink) == Len(imglink) > 0 /\ imglink[1] \in {UrlPathPrefix, RawHost}

\* C6: the relocation of a relocated text, all of whose image links are URLs
\* the store returned, raises nothing, returns the text as it was, and
\* fetches and stores nothing.
C6_Idempotent ==
  (/\ pc = "relocated_again"
   /\ findall(before_text, 1) # <<>>
   /\ \A k \in 1..Len(findall(before_text, 1)) : IsStoreUrl(findall(before_text, 1)[k].imglink)) =>
    /\ err = ""
    /\ markdown_text = before_text
    /\ fetched = <<>>
    /\ stored = <<>>

PathExt(imglink) ==
  LET path == SelectSeq(imglink, LAMBDA tok : ~IsQuery(tok))
  IN IF Len(path) > 0 /\ path[Len(path)] \in ExtTokens THEN path[Len(path)] ELSE ""

----------------------------------------------------------------------------
(* Statements about the driver *)

\* C9: a failure while a document is converted does not end the process with
\* an error: main() never stops on an exception, and when it is done the loop
\* has been through every document.
C9_FailureConfined ==
  /\ pc # "crashed"
  /\ pc = "done" => doc_ix = Len(page_nodes)

\* the image store holds the bytes data
Holds(data) ==
  \/ \E k \in DOMAIN local_files : local_files[k] = data
  \/ \E k \in DOMAIN gh_files : gh_files[k] = data

----------------------------------------------------------------------------
(* Statements about the formatting of a run *)

\* the run the page holds
TheRun == tree[PageId][1].data.rich_text[1]

\* the flag of the run is set
On(flag) == flag \in DOMAIN TheRun.annotations /\ TheRun.annotations[flag]

\* the marker of a wrap if its flag is set, nothing otherwise
Mark(flag, tok) == IF On(flag) THEN <<tok>> ELSE <<>>

\* C11: the formatted run is, from the outside in, the color wrap (if the
\* color is not default), the code, underline, strikethrough, italic and
\* bold wraps (each if its flag is set), around the text, which is the link
\* [text](href) if the run has a href.
C11_WrapOrder ==
  (pc = "formatted") =>
    /\ err = ""
    /\ markdown_text =
         (IF TheRun.annotations.color # "default"
          THEN <<"<font color=", TheRun.annotations.color, ">">> ELSE <<>>)
         \o Mark("code", "BACKTICK") \o Mark("underline", "<u>") \o Mark("strikethrough", "~~")
         \o Mark("italic", "*") \o Mark("bold", "**")
         \o (IF "href" \in DOMAIN TheRun
             THEN <<"[">> \o TheRun.plain_text \o <<"]", "(">> \o TheRun.href \o <<")">>
             ELSE TheRun.plain_text)
         \o Mark("bold", "**") \o Mark("italic", "*") \o Mark("strikethrough", "~~")
         \o Mark("underline", "</u>") \o Mark("code", "BACKTICK")
         \o (IF TheRun.annotations.color # "default" THEN <<"</font>">> ELSE <<>>)

\* bold and code on "x": the bold text inside the code marks
C11_Witness ==
  /\ pc = "formatted"
  /\ On("bold") /\ On("code") /\ ~On("italic") /\ ~On("underline") /\ ~On("strikethrough")
  /\ markdown_text = <<"BACKTICK", "**", "x", "**", "BACKTICK">>

----------------------------------------------------------------------------
(* Statements about the layout of the text of a walk *)

\* the number of tokens of the rendered text of a block
TextLen(id) == Len(handle_block(BlockOf(id), Depth(id)).text)

\* the number of newlines after a block
SepLen(id) == IF BlockOf(id).type \in {"table", "table_row"} THEN 1 ELSE 2

\* the number of tokens of the text before the k-th rendered block
RECURSIVE OffsetOf(_)
OffsetOf(k) ==
  IF k = 1 THEN 0
  ELSE OffsetOf(k - 1) + Depth(rendered[k - 1]) + TextLen(rendered[k - 1])
       + SepLen(rendered[k - 1])

\* C12: in the text of a completed walk every rendered block contributes, at
\* its place, as many two-space indents as its level, its rendered text, and
\* one newline if its type is table or table_row, two newlines otherwise;
\* the place of a block is right after the block rendered before it, and the
\* block rendered right after a block with rendered children is its first
\* child, one level deeper.
C12_IndentAndSeparator ==
  (pc = "parsed" /\ err = "") =>
    /\ Len(markdown_text) = OffsetOf(Len(rendered) + 1)
    /\ \A k \in 1..Len(rendered) :
         /\ \A h \in 1..Depth(rendered[k]) : markdown_text[OffsetOf(k) + h] = "  "
         /\ SubSeq(markdown_text, OffsetOf(k) + Depth(rendered[k]) + 1,
                   OffsetOf(k) + Depth(rendered[k]) + TextLen(rendered[k]))
              = handle_block(BlockOf(rendered[k]), Depth(rendered[k])).text
         /\ \A h \in 1..SepLen(rendered[k]) :
              markdown_text[OffsetOf(k) + Depth(rendered[k]) + TextLen(rendered[k]) + h] = "\n"
         /\ (k < Len(rendered) /\ ParentOf(rendered[k + 1]) = rendered[k]) =>
              /\ rendered[k + 1] = tree[rendered[k]][1].id
              /\ Depth(rendered[k + 1]) = Depth(rendered[k]) + 1
         /\ (BlockOf(rendered[k]).has_children /\ Len(tree[rendered[k]]) > 0) =>
              (k < Len(rendered) /\ rendered[k + 1] = tree[rendered[k]][1].id)

\* a paragraph with a table row as its child: the row is indented once and
\* ends with one newline
C12_Witness ==
  /\ pc = "parsed" /\ err = ""
  /\ rendered = <<1, 2>>
  /\ BlockOf(1).type = "paragraph" /\ BlockOf(2).type = "table_row" /\ ParentOf(2) = 1
  /\ markdown_text = <<"a", "**", "b", "**", "\n", "\n", "  ", "|", "c", "|", "d", "|", "\n">>

----------------------------------------------------------------------------
(* Statements about the steps of a relocation *)

\* the number of places of text where sub occurs
CountOcc(text, sub) == Cardinality({i \in 1..Len(text) : StartsAt(text, i, sub)})

\* the references of the text handed to the relocation that are not excluded
Relocatable == SelectSeq(findall(before_text, 1), LAMBDA m : ~is_exclude(m.imglink))

\* the text before the k-th step of the relocation
TextBefore(k) == IF k = 1 THEN before_text ELSE stored[k - 1].after

\* C13: a relocation has one step, with its own fetch and store, for each
\* reference that is not excluded, in the order of the references in the
\* text, and a step replaces one occurrence of the reference it is for, the
\* first: the text after the step has one occurrence of that reference less
\* than the text before it.
C13_FirstOccurrenceOnly ==
  (pc = "relocated" /\ err = "") =>
    /\ Len(stored) = Len(Relocatable)
    /\ fetched = [k \in 1..Len(Relocatable) |-> Relocatable[k].imglink]
    /\ \A k \in 1..Len(stored) :
         /\ stored[k].link = Relocatable[k].imglink
         /\ CountOcc(TextBefore(k), Relocatable[k].match_text) >= 1
         /\ CountOcc(stored[k].after, Relocatable[k].match_text)
              = CountOcc(TextBefore(k), Relocatable[k].match_text) - 1

----------------------------------------------------------------------------
(* Statements about what a relocation leaves as it is *)

\* a matched reference with "URL" in the place of its URL, which starts two
\* tokens after the bracket that closes the alt text
Framed(m) ==
  LET c == CHOOSE c \in 1..Len(m.match_text) :
             m.match_text[c] = "]" /\ \A h \in 1..(c - 1) : m.match_text[h] # "]"
  IN SubSeq(m.match_text, 1, c + 1) \o <<"URL">>
     \o SubSeq(m.match_text, c + 2 + Len(m.imglink), Len(m.match_text))

\* the text from token i on with "URL" in the place of the URL of every
\* matched reference that is not excluded
RECURSIVE Frame(_, _)
Frame(text, i) ==
  IF i > Len(text) THEN <<>>
  ELSE LET m == MatchAt(text, i)
       IN IF ~m.ok THEN <<text[i]>> \o Frame(text, i + 1)
          ELSE (IF is_exclude(m.imglink) THEN m.match_text ELSE Framed(m))
               \o Frame(text, m.end + 1)

\* C14: a relocation changes only the URLs of the matched references that are
\* not excluded: but for those URLs, the text after it is the text before it,
\* token for token.
C14_OnlyUrlsChange ==
  (pc = "relocated" /\ err = "") => Frame(markdown_text, 1) = Frame(before_text, 1)

----------------------------------------------------------------------------
(* Statements about the image stores *)

\* the branches of the github repository that hold a file at the path
BranchesWith(path) == {loc[1] : loc \in {l \in DOMAIN gh_files : l[2] = path}}

\* C15: when store() is called again with bytes and an extension it was
\* called with before, the second call returns the URL the first returned
\* and the store holds one object at the key, with those bytes: the file of
\* the local store, or the file on the configured branch of the github store
\* and on no other branch; and when the store rejects writes, the exception
\* of store() ends the relocation.
C15_StoreIdempotent ==
  /\ \A a, b \in 1..Len(stored) :
       (a < b /\ stored[a].data = stored[b].data /\ stored[a].key = stored[b].key) =>
         /\ stored[b].url # <<>>
         /\ stored[b].url = stored[a].url
         /\ img_store_type = "local" =>
              (stored[a].key \in DOMAIN local_files
               /\ local_files[stored[a].key] = stored[a].data)
         /\ img_store_type = "github" =>
              (BranchesWith(stored[a].key) = {github_branch}
               /\ gh_files[<<github_branch, stored[a].key>>] = stored[a].data)
  /\ (store_down /\ stored # <<>>) => err \in {"OSError", "GithubException"}

----------------------------------------------------------------------------
(* Statements about the requests of the walk *)

\* C16: the walk of a finite block tree ends, and it requests children on
\* demand and once: the first request is for the children of the page, every
\* other request is for a block the walk rendered whose has_children is
\* true, every rendered block whose has_children is true is requested, no
\* id is requested twice, no block whose has_children is false is requested,
\* and no block id is rendered twice.
C16_LazyOnce ==
  /\ pc = "start" => ENABLED Parse
  /\ pc = "parsed" =>
       /\ Len(asked) >= 1 /\ asked[1] = PageId
       /\ \A k \in 2..Len(asked) :
            /\ Count(rendered, asked[k]) = 1
            /\ BlockOf(asked[k]).has_children = TRUE
       /\ \A k \in 1..Len(rendered) :
            /\ Count(rendered, rendered[k]) = 1
            /\ Count(asked, rendered[k]) =
                 (IF BlockOf(rendered[k]).has_children = TRUE THEN 1 ELSE 0)
       /\ Count(asked, PageId) = 1

\* the walk of a page of block 1 with children 2 and 3, where 2 has no
\* children: two requests, for the page and for block 1
C16_Witness ==
  /\ pc = "parsed" /\ err = ""
  /\ rendered = <<1, 2, 3>>
  /\ asked = <<PageId, 1>>
  /\ ParentOf(2) = 1 /\ ParentOf(3) = 1
  /\ BlockOf(1).has_children = TRUE
  /\ BlockOf(2).has_children = FALSE /\ BlockOf(3).has_children = FALSE

====
